---- MODULE Spec2Model ----
(***************************************************************************)
(* GridZen2 (src/App.js, second GridZenGame component, lines 1449-2717):   *)
(* the tile-swap puzzle engine as a state machine.  The React state hooks  *)
(* are the variables, every handler / timeout callback / effect is one     *)
(* action.  A grid is kept row-major: cell (row, col) of an N x N grid is  *)
(* element row*N + col + 1 of a sequence; 0 stands for a tile whose        *)
(* number is `undefined`.                                                  *)
(***************************************************************************)
EXTENDS Integers, Sequences, FiniteSets, TLC

(***************************************************************************)
(* Bounds of the exploration (not program constants).                      *)
(***************************************************************************)
MaxPresses == 4       \* tile presses accepted per behaviour
MaxTicks == 1         \* timer ticks per behaviour in Spec

(***************************************************************************)
(* Program constants.                                                      *)
(***************************************************************************)
ShuffleAttempts == 10
TopScores == 5
FreezeSeconds == 15
PowerUpEvery == 8

Null == <<>>          \* JS null for selectedTile
NoPowerUp == "null"   \* JS null for selectedPowerUp

Packs == <<"beginner", "intermediate", "advanced">>
PackNames == {"beginner", "intermediate", "advanced"}
GridSizes == {4, 5, 6}

PUZZLE_PACKS ==
  [beginner |-> <<
     [name |-> "First Steps", gridSize |-> 4, maxMoves |-> 1, timeLimit |-> 45,
      startGrid |-> <<2,1,3,4,5,6,7,8,9,10,11,12,13,14,15,16>>],
     [name |-> "Three Chain", gridSize |-> 4, maxMoves |-> 3, timeLimit |-> 60,
      startGrid |-> <<3,1,4,2,5,6,7,8,9,10,11,12,13,14,15,16>>],
     [name |-> "Five Step", gridSize |-> 4, maxMoves |-> 5, timeLimit |-> 75,
      startGrid |-> <<7,1,2,3,5,6,8,4,9,10,11,12,13,14,15,16>>],
     [name |-> "Seven Chain", gridSize |-> 4, maxMoves |-> 7, timeLimit |-> 90,
      startGrid |-> <<7,1,2,3,5,6,11,4,9,10,12,8,13,14,15,16>>],
     [name |-> "Nine Sequence", gridSize |-> 4, maxMoves |-> 9, timeLimit |-> 105,
      startGrid |-> <<4,2,3,8,1,6,7,12,5,10,11,16,9,13,14,15>>] >>,
   intermediate |-> <<
     [name |-> "Double Challenge", gridSize |-> 4, maxMoves |-> 6, timeLimit |-> 120,
      startGrid |-> <<2,1,4,3,5,6,7,8,9,10,11,12,13,14,15,16>>],
     [name |-> "Triple Test", gridSize |-> 4, maxMoves |-> 8, timeLimit |-> 150,
      startGrid |-> <<2,1,4,3,6,5,7,8,9,10,11,12,13,14,15,16>>],
     [name |-> "Quad Master", gridSize |-> 4, maxMoves |-> 10, timeLimit |-> 180,
      startGrid |-> <<2,1,4,3,6,5,8,7,9,10,11,12,13,14,15,16>>] >>,
   advanced |-> <<
     [name |-> "Penta Challenge", gridSize |-> 4, maxMoves |-> 12, timeLimit |-> 200,
      startGrid |-> <<2,1,4,3,6,5,8,7,10,9,11,12,13,14,15,16>>],
     [name |-> "Hexa Master", gridSize |-> 4, maxMoves |-> 14, timeLimit |-> 250,
      startGrid |-> <<2,1,4,3,6,5,8,7,10,9,12,11,13,14,15,16>>],
     [name |-> "Ultimate Test", gridSize |-> 4, maxMoves |-> 16, timeLimit |-> 300,
      startGrid |-> <<2,1,4,3,6,5,8,7,10,9,12,11,14,13,16,15>>] >>]

POWER_UP_TYPES == {"FREEZE_TIME", "SWAP_ANY", "AUTO_SOLVE", "DOUBLE_MOVE"}

\* PUZZLE_PACKS[pack]?.[index] with the code's 0-based index
HasPuzzle(pack, index) == pack \in PackNames /\ index >= 0 /\ index < Len(PUZZLE_PACKS[pack])
Puzzle(pack, index) == PUZZLE_PACKS[pack][index + 1]

VARIABLES
  gameState,          \* 'splash' | 'menu' | 'playing' | 'won' | 'gameOver'
  gameMode,           \* 'classic' | 'puzzle'
  gridSize,
  grid,
  targetGrid,         \* the solved board initializeGrid sets next to grid
  selectedTile,       \* Null or <<row, col>>
  moves,
  timeLeft,
  playerName,
  highScores,         \* bucket key -> sequence of score records
  unlocks,            \* cached pack-unlock flags
  currentPuzzlePack,
  currentPuzzleIndex,
  maxMoves,
  powerUps,           \* sequence of held power-up types
  selectedPowerUp,    \* NoPowerUp | 'SWAP_ANY' | 'DOUBLE_MOVE'
  pendingWins,        \* closures of the scheduled setTimeout(() => handleWin(), 300)
  presses,            \* tile presses accepted so far (bounded by MaxPresses)
  ticks,              \* timer ticks so far (bounded by MaxTicks)
  overriddenSwaps,    \* history: swaps of the round made while an override was armed
  tokensApplied       \* history: tokens applied in the round (the kinds a specification counts)

vars == <<gameState, gameMode, gridSize, grid, targetGrid, selectedTile, moves, timeLeft,
          playerName, highScores, unlocks, currentPuzzlePack, currentPuzzleIndex,
          maxMoves, powerUps, selectedPowerUp, pendingWins, presses, ticks,
          overriddenSwaps, tokensApplied>>

(***************************************************************************)
(* Pure helpers.                                                           *)
(***************************************************************************)
Min(a, b) == IF a <= b THEN a ELSE b

Abs(x) == IF x < 0 THEN -x ELSE x

GridIndex(row, col, size) == row * size + col + 1

SolvedNumbers(size) == [i \in 1..(size * size) |-> i]

\* a swap that forgets to write the first cell
SwapTilesKeepFirst(g, a, b) == [g EXCEPT ![b] = g[a]]

\* a swap that forgets to write the second cell back
SwapTilesOverwrite(g, a, b) == [g EXCEPT ![a] = g[b]]

SwapTiles(g, a, b) == [g EXCEPT ![a] = g[b], ![b] = g[a]]

\* `${gridSize}x${gridSize}` and `puzzle-${pack}-${index}`
scoreKey(mode, size, pack, index) ==
  IF mode = "puzzle"
    THEN "puzzle-" \o pack \o "-" \o ToString(index)
    ELSE ToString(size) \o "x" \o ToString(size)

EmptyScores == [k \in {} |-> <<>>]

(***************************************************************************)
(* checkWin: the scan of lines 2218-2227; a missing cell or a wrong number *)
(* ends it with false.                                                     *)
(***************************************************************************)
RECURSIVE checkWinFrom(_, _, _)
checkWinFrom(currentGrid, size, expectedNumber) ==
  IF expectedNumber > size * size THEN TRUE
  ELSE IF expectedNumber > Len(currentGrid) \/ currentGrid[expectedNumber] # expectedNumber
    THEN FALSE
    ELSE checkWinFrom(currentGrid, size, expectedNumber + 1)

\* a scan that starts at the second cell
checkWinSkipFirst(currentGrid, size) == checkWinFrom(currentGrid, size, 2)

checkWin(currentGrid, size) == checkWinFrom(currentGrid, size, 1)

\* adjacency that also accepts the diagonal neighbours
isAdjacentOrDiagonal(row, col, selRow, selCol) ==
  Abs(row - selRow) <= 1 /\ Abs(col - selCol) <= 1

\* adjacency that accepts only the left and right neighbours
isAdjacentInRow(row, col, selRow, selCol) ==
  Abs(col - selCol) = 1 /\ row = selRow

isAdjacent(row, col, selRow, selCol) ==
  \/ (Abs(row - selRow) = 1 /\ col = selCol)
  \/ (Abs(col - selCol) = 1 /\ row = selRow)

(***************************************************************************)
(* Leaderboard helpers.                                                    *)
(***************************************************************************)
isPuzzleCompleted(hs, pack, index) ==
  LET key == "puzzle-" \o pack \o "-" \o ToString(index)
  IN  key \in DOMAIN hs /\ Len(hs[key]) > 0

RECURSIVE isPackCompletedFrom(_, _, _)
isPackCompletedFrom(hs, pack, i) ==
  IF i >= Len(PUZZLE_PACKS[pack]) THEN TRUE
  ELSE IF ~isPuzzleCompleted(hs, pack, i) THEN FALSE
  ELSE isPackCompletedFrom(hs, pack, i + 1)

\* a completion test that skips the first puzzle of the pack
isPackCompletedButFirst(hs, pack) ==
  IF Len(PUZZLE_PACKS[pack]) = 0 THEN FALSE ELSE isPackCompletedFrom(hs, pack, 1)

isPackCompleted(hs, pack) ==
  IF Len(PUZZLE_PACKS[pack]) = 0 THEN FALSE ELSE isPackCompletedFrom(hs, pack, 0)

\* renderPuzzleSelectModal: the lock derived for a pack column
locked(hs, pack) ==
  \/ (pack = "intermediate" /\ ~isPackCompleted(hs, "beginner"))
  \/ (pack = "advanced" /\ ~isPackCompleted(hs, "intermediate"))

\* the unlock-flag effect: the flags it stores for the store hs, given the cached flags u
unlockEffect(hs, u) ==
  [beginner |-> TRUE,
   intermediate |-> isPackCompleted(hs, "beginner") \/ u.intermediate,
   advanced |-> (isPackCompleted(hs, "beginner") /\ isPackCompleted(hs, "intermediate"))
                  \/ u.advanced]

\* Array.prototype.sort((a, b) => a.moves - b.moves): a stable sort, as an insertion sort
RECURSIVE insertByMoves(_, _)
insertByMoves(sorted, rec) ==
  IF sorted = <<>> THEN <<rec>>
  ELSE IF Head(sorted).moves <= rec.moves
    THEN <<Head(sorted)>> \o insertByMoves(Tail(sorted), rec)
    ELSE <<rec>> \o sorted

RECURSIVE sortByMoves(_)
sortByMoves(list) ==
  IF list = <<>> THEN <<>>
  ELSE insertByMoves(sortByMoves(SubSeq(list, 1, Len(list) - 1)), list[Len(list)])

\* a recording that slices without sorting first
recordScoreUnsorted(hs, key, newScore) ==
  LET list == IF key \in DOMAIN hs THEN hs[key] ELSE <<>>
      pushed == Append(list, newScore)
  IN  (key :> SubSeq(pushed, 1, Min(TopScores, Len(pushed)))) @@ hs

\* a recording that writes a store holding the bucket of key only
recordScoreAlone(hs, key, newScore) ==
  LET list == IF key \in DOMAIN hs THEN hs[key] ELSE <<>>
      sorted == sortByMoves(Append(list, newScore))
  IN  (key :> SubSeq(sorted, 1, Min(TopScores, Len(sorted))))

\* handleWin lines 2266-2273: push, sort, slice(0, 5) on the bucket of key
recordScore(hs, key, newScore) ==
  LET list == IF key \in DOMAIN hs THEN hs[key] ELSE <<>>
      sorted == sortByMoves(Append(list, newScore))
  IN  (key :> SubSeq(sorted, 1, Min(TopScores, Len(sorted)))) @@ hs

(***************************************************************************)
(* Round set-up helpers.                                                   *)
(***************************************************************************)
getTimeLimit(mode, size, pack, index) ==
  IF mode = "puzzle"
    THEN IF HasPuzzle(pack, index) /\ Puzzle(pack, index).timeLimit # 0
           THEN Puzzle(pack, index).timeLimit ELSE 60
    ELSE CASE size = 4 -> 60
           [] size = 5 -> 90
           [] size = 6 -> 120
           [] OTHER -> 60

\* numbers laid out on a size x size grid; an index past the end of numbers reads undefined (0)
layoutGrid(numbers, size) ==
  [k \in 1..(size * size) |-> IF k <= Len(numbers) THEN numbers[k] ELSE 0]

\* outcomes of numbers.sort(() => Math.random() - 0.5) explored: the permutations that
\* move only the first three cells
ShuffledHeads == {<<1, 2, 3>>, <<1, 3, 2>>, <<2, 1, 3>>, <<2, 3, 1>>, <<3, 1, 2>>, <<3, 2, 1>>}

ShuffleOutcomes(size) ==
  { [k \in 1..(size * size) |-> IF k <= Len(h) THEN h[k] ELSE k] : h \in ShuffledHeads }

(***************************************************************************)
(* AUTO_SOLVE (usePowerUp lines 1849-1875).                                *)
(***************************************************************************)
RECURSIVE findInRow(_, _, _, _, _)
findInRow(g, size, x, y, expectedNumber) ==
  IF y >= size THEN 0
  ELSE IF g[GridIndex(x, y, size)] = expectedNumber THEN GridIndex(x, y, size)
  ELSE findInRow(g, size, x, y + 1, expectedNumber)

\* the x loop: it leaves after the first row once fixed > 0
RECURSIVE findTile(_, _, _, _, _)
findTile(g, size, x, expectedNumber, fixed) ==
  IF x >= size THEN 0
  ELSE LET at == findInRow(g, size, x, 0, expectedNumber)
       IN  IF at # 0 THEN at
           ELSE IF fixed > 0 THEN 0
           ELSE findTile(g, size, x + 1, expectedNumber, fixed)

RECURSIVE autoSolveFrom(_, _, _, _)
autoSolveFrom(g, size, k, fixed) ==
  IF k > size * size \/ fixed >= 2 THEN g
  ELSE IF g[k] # k
    THEN LET at == findTile(g, size, 0, k, fixed)
         IN  IF at # 0 THEN autoSolveFrom(SwapTiles(g, k, at), size, k + 1, fixed + 1)
             ELSE autoSolveFrom(g, size, k + 1, fixed)
    ELSE autoSolveFrom(g, size, k + 1, fixed)

autoSolve(g, size) == autoSolveFrom(g, size, 1, 0)

(***************************************************************************)
(* State after construction (the useState initial values).                 *)
(***************************************************************************)
roundVars == <<grid, targetGrid, selectedTile, moves, timeLeft, maxMoves, powerUps, selectedPowerUp>>
menuVars == <<gameMode, gridSize, playerName, currentPuzzlePack, currentPuzzleIndex>>
storeVars == <<highScores, unlocks>>
countVars == <<overriddenSwaps, tokensApplied>>
auxVars == <<presses, ticks, overriddenSwaps, tokensApplied>>

Init ==
  /\ gameState = "splash"
  /\ gameMode = "classic"
  /\ gridSize = 4
  /\ grid = <<>>
  /\ targetGrid = <<>>
  /\ selectedTile = Null
  /\ moves = 0
  /\ timeLeft = 30
  /\ playerName = ""
  /\ highScores = EmptyScores
  /\ unlocks = [beginner |-> TRUE, intermediate |-> FALSE, advanced |-> FALSE]
  /\ currentPuzzlePack = "beginner"
  /\ currentPuzzleIndex = 0
  /\ maxMoves = 0
  /\ powerUps = <<>>
  /\ selectedPowerUp = NoPowerUp
  /\ pendingWins = <<>>
  /\ presses = 0
  /\ ticks = 0
  /\ overriddenSwaps = 0
  /\ tokensApplied = 0

(***************************************************************************)
(* Stores a previous session can have persisted under gridzen2_highscores. *)
(***************************************************************************)
ScoreList(ms) == [i \in 1..Len(ms) |-> [moves |-> ms[i]]]

SavedBeginnerButFirst ==
  ("puzzle-beginner-1" :> ScoreList(<<2>>)) @@ ("puzzle-beginner-2" :> ScoreList(<<4>>)) @@
  ("puzzle-beginner-3" :> ScoreList(<<6>>)) @@ ("puzzle-beginner-4" :> ScoreList(<<8>>)) @@
  ("4x4" :> ScoreList(<<0, 1, 1, 2, 2>>))

SavedIntermediateButFirst ==
  ("puzzle-beginner-0" :> ScoreList(<<0>>)) @@ ("puzzle-beginner-1" :> ScoreList(<<2>>)) @@
  ("puzzle-beginner-2" :> ScoreList(<<4>>)) @@ ("puzzle-beginner-3" :> ScoreList(<<6>>)) @@
  ("puzzle-beginner-4" :> ScoreList(<<8>>)) @@
  ("puzzle-intermediate-1" :> ScoreList(<<2>>)) @@ ("puzzle-intermediate-2" :> ScoreList(<<3, 5>>))

SavedStores == {EmptyScores, SavedBeginnerButFirst, SavedIntermediateButFirst}

(***************************************************************************)
(* Handlers.  Each takes the values the code draws at random or reads from *)
(* storage as parameters and leaves the exploration counters alone.        *)
(***************************************************************************)
\* loadInitialData and the splash timeout that follows it
loadInitialData(savedScores, savedName) ==
  /\ gameState = "splash"
  /\ gameState' = "menu"
  /\ highScores' = savedScores
  /\ unlocks' = unlockEffect(savedScores, unlocks)
  /\ playerName' = IF savedName # "" THEN savedName ELSE playerName
  /\ UNCHANGED <<gameMode, gridSize, currentPuzzlePack, currentPuzzleIndex, roundVars, pendingWins>>

setPlayerName(name) ==
  /\ gameState = "menu"
  /\ playerName' = name
  /\ UNCHANGED <<gameState, gameMode, gridSize, currentPuzzlePack, currentPuzzleIndex,
                 roundVars, storeVars, pendingWins>>

setGameMode(mode) ==
  /\ gameState = "menu"
  /\ gameMode' = mode
  /\ UNCHANGED <<gameState, gridSize, playerName, currentPuzzlePack, currentPuzzleIndex,
                 roundVars, storeVars, pendingWins>>

\* the Picker of renderGridSizeModal
setGridSize(value) ==
  /\ gameState = "menu"
  /\ gridSize' = value
  /\ UNCHANGED <<gameState, gameMode, playerName, currentPuzzlePack, currentPuzzleIndex,
                 roundVars, storeVars, pendingWins>>

\* a puzzle cell of renderPuzzleSelectModal: disabled while its pack is locked
selectPuzzle(pack, idx) ==
  /\ gameState = "menu"
  /\ ~locked(highScores, pack)
  /\ currentPuzzlePack' = pack
  /\ currentPuzzleIndex' = idx
  /\ UNCHANGED <<gameState, gameMode, gridSize, playerName, roundVars, storeVars, pendingWins>>

\* the fallback board with cells numbered from 0
fallbackGridZeroBased(size) ==
  [k \in 1..(size * size) |-> ((k - 1) \div size) * size + ((k - 1) % size)]

\* the fallback board of the catch block: row i, column j holds i * gridSize + j + 1
fallbackGrid(size) ==
  [k \in 1..(size * size) |-> ((k - 1) \div size) * size + ((k - 1) % size) + 1]

\* initializeGrid: the grid, the target grid and the maxMoves it leaves, for the shuffle
\* outcome `shuffled`.  `failure` is where the try block threw: "none", "colors" (in
\* generateDistinctColors, before any state is set) or "layout" (while newGrid is built,
\* after setMaxMoves)
initializeGrid(shuffled, failure) ==
  /\ maxMoves' = IF /\ failure # "colors"
                    /\ gameMode = "puzzle"
                    /\ HasPuzzle(currentPuzzlePack, currentPuzzleIndex)
                   THEN Puzzle(currentPuzzlePack, currentPuzzleIndex).maxMoves
                   ELSE maxMoves
  /\ IF failure # "none"
       THEN /\ grid' = fallbackGrid(gridSize)
            /\ targetGrid' = fallbackGrid(gridSize)
       ELSE /\ targetGrid' = layoutGrid(SolvedNumbers(gridSize), gridSize)
            /\ grid' = IF gameMode = "puzzle"
                         THEN IF HasPuzzle(currentPuzzlePack, currentPuzzleIndex)
                                THEN layoutGrid(Puzzle(currentPuzzlePack, currentPuzzleIndex).startGrid,
                                                gridSize)
                                ELSE layoutGrid(SolvedNumbers(gridSize), gridSize)
                         ELSE layoutGrid(shuffled, gridSize)

\* playerName.trim() on the names explored: a name of spaces only trims to the empty string
trim(name) == IF name \in {" ", "  "} THEN "" ELSE name

\* a startGame that keeps the held power-ups and the armed override of the previous round
startGameKeepingPowerUps(shuffled, attempts, failure) ==
  /\ gameState = "menu"
  /\ Len(shuffled) = gridSize * gridSize
  /\ \A n \in 1..(gridSize * gridSize) : \E k \in DOMAIN shuffled : shuffled[k] = n
  /\ attempts \in 1..ShuffleAttempts
  /\ (shuffled = SolvedNumbers(gridSize)) => (attempts = ShuffleAttempts)
  /\ IF trim(playerName) = ""
       THEN UNCHANGED <<gameState, roundVars>>
       ELSE /\ gameState' = "playing"
            /\ moves' = 0
            /\ timeLeft' = getTimeLimit(gameMode, gridSize, currentPuzzlePack, currentPuzzleIndex)
            /\ selectedTile' = Null
            /\ UNCHANGED <<powerUps, selectedPowerUp>>
            /\ initializeGrid(shuffled, failure)
  /\ UNCHANGED <<menuVars, storeVars, pendingWins>>

\* startGame; `attempts` is the number of shuffles the do-while loop took
startGame(shuffled, attempts, failure) ==
  /\ gameState = "menu"
  /\ Len(shuffled) = gridSize * gridSize
  /\ \A n \in 1..(gridSize * gridSize) : \E k \in DOMAIN shuffled : shuffled[k] = n
  /\ attempts \in 1..ShuffleAttempts
  /\ (shuffled = SolvedNumbers(gridSize)) => (attempts = ShuffleAttempts)
  /\ IF trim(playerName) = ""
       THEN UNCHANGED <<gameState, roundVars>>
       ELSE /\ gameState' = "playing"
            /\ moves' = 0
            /\ timeLeft' = getTimeLimit(gameMode, gridSize, currentPuzzlePack, currentPuzzleIndex)
            /\ selectedTile' = Null
            /\ powerUps' = <<>>
            /\ selectedPowerUp' = NoPowerUp
            /\ initializeGrid(shuffled, failure)
  /\ UNCHANGED <<menuVars, storeVars, pendingWins>>

\* the puzzle-mode move limit checked before an adjacent swap (line 2342)
\* a budget test that lets one swap too many through
budgetExhaustedLate(mode, moveCount, limit) == mode = "puzzle" /\ moveCount > limit

budgetExhausted(mode, moveCount, limit) == mode = "puzzle" /\ moveCount >= limit

\* the closure of handleWin that a press schedules: the values of the render the press ran in
winClosure ==
  [moves |-> moves, highScores |-> highScores, gameMode |-> gameMode, gridSize |-> gridSize,
   pack |-> currentPuzzlePack, index |-> currentPuzzleIndex]

scheduleWin(newGrid) ==
  pendingWins' = IF checkWin(newGrid, gridSize) THEN Append(pendingWins, winClosure) ELSE pendingWins

\* an override that stays armed after the swap made with it
overrideKeptAfterSwap(override) == override

\* setSelectedPowerUp(null) after the swap made with `override` armed (lines 2317, 2370)
overrideAfterSwap(override) == NoPowerUp

\* handleTilePress(row, col); `award` is what generatePowerUp() returns when it is called
handleTilePress(row, col, award) ==
  IF gameState # "playing" THEN UNCHANGED <<gameState, menuVars, roundVars, storeVars, pendingWins>>
  ELSE IF selectedPowerUp = "SWAP_ANY" THEN
    IF selectedTile = Null
      THEN /\ selectedTile' = <<row, col>>
           /\ UNCHANGED <<gameState, menuVars, grid, moves, timeLeft, maxMoves, targetGrid, powerUps,
                          selectedPowerUp, storeVars, pendingWins>>
      ELSE LET newGrid == SwapTiles(grid, GridIndex(row, col, gridSize),
                                    GridIndex(selectedTile[1], selectedTile[2], gridSize))
           IN  /\ grid' = newGrid
               /\ moves' = moves + 1
               /\ selectedTile' = Null
               /\ selectedPowerUp' = overrideAfterSwap(selectedPowerUp)
               /\ scheduleWin(newGrid)
               /\ UNCHANGED <<gameState, menuVars, timeLeft, maxMoves, targetGrid, powerUps, storeVars>>
  ELSE IF selectedTile = Null
    THEN /\ selectedTile' = <<row, col>>
         /\ UNCHANGED <<gameState, menuVars, grid, moves, timeLeft, maxMoves, targetGrid, powerUps,
                        selectedPowerUp, storeVars, pendingWins>>
  ELSE IF selectedTile = <<row, col>>
    THEN /\ selectedTile' = Null
         /\ UNCHANGED <<gameState, menuVars, grid, moves, timeLeft, maxMoves, targetGrid, powerUps,
                        selectedPowerUp, storeVars, pendingWins>>
  ELSE IF isAdjacent(row, col, selectedTile[1], selectedTile[2]) THEN
    IF budgetExhausted(gameMode, moves, maxMoves)
      THEN \* handleGameOver()
           /\ gameState' = "gameOver"
           /\ UNCHANGED <<menuVars, roundVars, storeVars, pendingWins>>
      ELSE LET newGrid == SwapTiles(grid, GridIndex(row, col, gridSize),
                                    GridIndex(selectedTile[1], selectedTile[2], gridSize))
               isFreeMoveActive == selectedPowerUp = "DOUBLE_MOVE"
           IN  /\ grid' = newGrid
               /\ IF ~isFreeMoveActive
                    THEN /\ moves' = moves + 1
                         /\ powerUps' =
                              IF gameMode = "classic" /\ (moves + 1) % PowerUpEvery = 0
                                   /\ award # NoPowerUp
                                THEN Append(powerUps, award) ELSE powerUps
                         /\ UNCHANGED selectedPowerUp
                    ELSE /\ selectedPowerUp' = overrideAfterSwap(selectedPowerUp)
                         /\ UNCHANGED <<moves, powerUps>>
               /\ selectedTile' = Null
               /\ scheduleWin(newGrid)
               /\ UNCHANGED <<gameState, menuVars, timeLeft, maxMoves, targetGrid, storeVars>>
  ELSE /\ selectedTile' = <<row, col>>
       /\ UNCHANGED <<gameState, menuVars, grid, moves, timeLeft, maxMoves, targetGrid, powerUps,
                      selectedPowerUp, storeVars, pendingWins>>

\* the setTimeout(() => handleWin(), 300) callback: handleWin of the render that scheduled it
handleWin ==
  /\ pendingWins # <<>>
  /\ LET c == Head(pendingWins)
         key == scoreKey(c.gameMode, c.gridSize, c.pack, c.index)
         updatedScores == recordScore(c.highScores, key, [moves |-> c.moves])
     IN  /\ gameState' = "won"
         /\ highScores' = updatedScores
         /\ unlocks' = unlockEffect(updatedScores, unlocks)
  /\ pendingWins' = Tail(pendingWins)
  /\ UNCHANGED <<menuVars, roundVars>>

\* a timer effect that schedules the tick in every state with time left
timerScheduledAnyState == timeLeft > 0

\* the timer effect: a 1000 ms timeout is pending exactly while the round is playing with
\* time left (every other render clears it in the effect's cleanup)
timerScheduled == gameState = "playing" /\ timeLeft > 0

\* a timer callback whose round goes on at 0
timerTickNoExpiry ==
  /\ timerScheduled
  /\ timeLeft' = timeLeft - 1
  /\ UNCHANGED <<gameState, menuVars, grid, selectedTile, moves, maxMoves, targetGrid, powerUps,
                 selectedPowerUp, storeVars, pendingWins>>

\* the 1000 ms timer callback, and the timer effect that runs handleGameOver at 0
timerTick ==
  /\ timerScheduled
  /\ timeLeft' = timeLeft - 1
  /\ gameState' = IF timeLeft - 1 = 0 THEN "gameOver" ELSE gameState
  /\ UNCHANGED <<menuVars, grid, selectedTile, moves, maxMoves, targetGrid, powerUps, selectedPowerUp,
                 storeVars, pendingWins>>

RemoveType(list, type) == SelectSeq(list, LAMBDA p : p # type)

HoldsPowerUp(type) == \E i \in 1..Len(powerUps) : powerUps[i] = type

\* a power-up button of renderPowerUpModal
usePowerUp(powerUpType) ==
  /\ gameState = "playing"
  /\ HoldsPowerUp(powerUpType)
  /\ timeLeft' = IF powerUpType = "FREEZE_TIME" THEN timeLeft + FreezeSeconds ELSE timeLeft
  /\ selectedPowerUp' = IF powerUpType \in {"SWAP_ANY", "DOUBLE_MOVE"} THEN powerUpType
                        ELSE selectedPowerUp
  /\ grid' = IF powerUpType = "AUTO_SOLVE" THEN autoSolve(grid, gridSize) ELSE grid
  /\ powerUps' = RemoveType(powerUps, powerUpType)
  /\ UNCHANGED <<gameState, menuVars, selectedTile, moves, maxMoves, targetGrid, storeVars, pendingWins>>

\* the OK button of the alerts of handleWin and handleGameOver
alertOK ==
  /\ gameState \in {"won", "gameOver"}
  /\ pendingWins = <<>>
  /\ gameState' = "menu"
  /\ UNCHANGED <<menuVars, roundVars, storeVars, pendingWins>>

\* the Reset button of the resetHighScores alert
resetHighScores ==
  /\ gameState = "menu"
  /\ highScores' = EmptyScores
  /\ unlocks' = unlockEffect(EmptyScores, unlocks)
  /\ UNCHANGED <<gameState, menuVars, roundVars, pendingWins>>

(***************************************************************************)
(* Spec: one session of play.  The menu offers the classic sizes and the   *)
(* puzzles of PlayPuzzles; tile presses are drawn from PressCells.         *)
(***************************************************************************)
PressCells == {<<0, 0>>, <<0, 1>>, <<0, 2>>, <<0, 3>>, <<1, 0>>}

PlaySizes == {4, 5}

PlayPuzzles == {<<"beginner", 0>>, <<"beginner", 1>>, <<"intermediate", 0>>}

PlayerNames == {"", "Ann"}

Load ==
  \E savedScores \in SavedStores, savedName \in PlayerNames :
    loadInitialData(savedScores, savedName) /\ UNCHANGED auxVars

EnterName == setPlayerName("Ann") /\ UNCHANGED auxVars

ChooseMode ==
  /\ \E mode \in {"classic", "puzzle"} : setGameMode(mode)
  /\ UNCHANGED auxVars

ChooseSize ==
  /\ \E value \in PlaySizes : setGridSize(value)
  /\ UNCHANGED auxVars

ChoosePuzzle ==
  /\ \E pz \in PlayPuzzles : selectPuzzle(pz[1], pz[2])
  /\ UNCHANGED auxVars

Start ==
  /\ \E shuffled \in ShuffleOutcomes(gridSize), attempts \in {1, ShuffleAttempts} :
       startGame(shuffled, attempts, "none")
  /\ UNCHANGED auxVars

Press ==
  /\ presses < MaxPresses
  /\ \E cell \in PressCells : handleTilePress(cell[1], cell[2], NoPowerUp)
  /\ presses' = IF gameState = "playing" THEN presses + 1 ELSE presses
  /\ UNCHANGED <<ticks, countVars>>

WinTimeout == handleWin /\ UNCHANGED auxVars

Tick == ticks < MaxTicks /\ timerTick /\ ticks' = ticks + 1 /\ UNCHANGED <<presses, countVars>>

DismissAlert == alertOK /\ UNCHANGED auxVars

ResetScores == resetHighScores /\ UNCHANGED auxVars

Next ==
  \/ Load
  \/ EnterName
  \/ ChooseMode
  \/ ChooseSize
  \/ ChoosePuzzle
  \/ Start
  \/ Press
  \/ WinTimeout
  \/ Tick
  \/ DismissAlert
  \/ ResetScores

Spec == Init /\ [][Next]_vars

(***************************************************************************)
(* SpecMenu: the menu with every grid size and every puzzle on offer, up   *)
(* to the start of a round.                                                *)
(***************************************************************************)
SavedEveryPack ==
  [k \in { "puzzle-" \o pz[1] \o "-" \o ToString(pz[2]) :
             pz \in { <<pack, idx>> \in PackNames \X (0..4) : HasPuzzle(pack, idx) } }
     |-> ScoreList(<<0>>)]

MenuStores == SavedStores \cup {SavedEveryPack}

LoadAny ==
  \E savedScores \in MenuStores, savedName \in PlayerNames :
    loadInitialData(savedScores, savedName) /\ UNCHANGED auxVars

ChooseAnySize == \E value \in GridSizes : setGridSize(value) /\ UNCHANGED auxVars

ChooseAnyPuzzle ==
  \E pack \in PackNames : \E idx \in 0..(Len(PUZZLE_PACKS[pack]) - 1) :
    selectPuzzle(pack, idx) /\ UNCHANGED auxVars

NextMenu ==
  \/ LoadAny
  \/ EnterName
  \/ ChooseMode
  \/ ChooseAnySize
  \/ ChooseAnyPuzzle
  \/ Start
  \/ ResetScores

SpecMenu == Init /\ [][NextMenu]_vars

(***************************************************************************)
(* SpecPower: one classic round long enough to earn and use power-ups.     *)
(* Presses stay in the first three cells of row 0 and stop while a win     *)
(* callback is pending.                                                    *)
(***************************************************************************)
PowerMoves == 17      \* counted swaps in the round

PowerCells == {<<0, 0>>, <<0, 1>>, <<0, 2>>}

LoadFresh == loadInitialData(EmptyScores, "Ann") /\ UNCHANGED auxVars

PressPower ==
  /\ gameState = "playing"
  /\ pendingWins = <<>>
  /\ moves < PowerMoves
  /\ \E cell \in PowerCells, award \in POWER_UP_TYPES \cup {NoPowerUp} :
       handleTilePress(cell[1], cell[2], award)
  /\ UNCHANGED auxVars

UsePower == \E type \in POWER_UP_TYPES : usePowerUp(type) /\ UNCHANGED auxVars

NextPower ==
  \/ LoadFresh
  \/ ChooseAnySize
  \/ Start
  \/ PressPower
  \/ UsePower
  \/ WinTimeout
  \/ Tick

SpecPower == Init /\ [][NextPower]_vars

(***************************************************************************)
(* SpecFreeze: one classic 6x6 round in which every award is Freeze Time,  *)
(* awarded while no token is held; presses stay in cells (0,0) and (0,1).  *)
(***************************************************************************)
FreezeMoves == 104    \* counted swaps in the round

FreezeCells == {<<0, 0>>, <<0, 1>>}

ChooseLargest == setGridSize(6) /\ UNCHANGED auxVars

PressFreeze ==
  /\ gameState = "playing"
  /\ gridSize = 6
  /\ pendingWins = <<>>
  /\ moves < FreezeMoves
  /\ \E cell \in FreezeCells :
       handleTilePress(cell[1], cell[2], IF powerUps = <<>> THEN "FREEZE_TIME" ELSE NoPowerUp)
  /\ UNCHANGED auxVars

UseFreeze == usePowerUp("FREEZE_TIME") /\ UNCHANGED auxVars

NextFreeze ==
  \/ LoadFresh
  \/ ChooseLargest
  \/ Start
  \/ PressFreeze
  \/ UseFreeze
  \/ WinTimeout

SpecFreeze == Init /\ [][NextFreeze]_vars

(***************************************************************************)
(* SpecSolve: one classic 4x4 round whose shuffle moved tiles within the   *)
(* first two cells of rows 0 and 1; presses stay in cells (0,2) and (0,3)  *)
(* and every award is the Hint (AUTO_SOLVE) token.                         *)
(***************************************************************************)
SolveMoves == 8       \* counted swaps in the round

SolveCells == {<<0, 2>>, <<0, 3>>}

\* shuffle outcomes that permute the numbers 1, 2, 5, 6 among cells 1, 2, 5, 6
SolveShuffles ==
  { [k \in 1..16 |-> CASE k = 1 -> h[1] [] k = 2 -> h[2] [] k = 5 -> h[3] [] k = 6 -> h[4]
                       [] OTHER -> k] :
      h \in { f \in [1..4 -> {1, 2, 5, 6}] : \A i, j \in 1..4 : f[i] = f[j] => i = j } }

StartSolve ==
  /\ gridSize = 4
  /\ \E shuffled \in SolveShuffles : startGame(shuffled, IF shuffled = SolvedNumbers(4) THEN ShuffleAttempts ELSE 1, "none")
  /\ UNCHANGED auxVars

PressSolve ==
  /\ gameState = "playing"
  /\ pendingWins = <<>>
  /\ moves < SolveMoves
  /\ \E cell \in SolveCells : handleTilePress(cell[1], cell[2], "AUTO_SOLVE")
  /\ UNCHANGED auxVars

UseSolve == usePowerUp("AUTO_SOLVE") /\ UNCHANGED auxVars

NextSolve ==
  \/ LoadFresh
  \/ StartSolve
  \/ PressSolve
  \/ UseSolve
  \/ WinTimeout

SpecSolve == Init /\ [][NextSolve]_vars

(***************************************************************************)
(* SpecTimer: rounds played against the clock.  The timer runs down to 0   *)
(* in every round; presses stay in cells (0,0) and (0,1).                  *)
(***************************************************************************)
TimerPresses == 4     \* tile presses in a behaviour

TimerCells == {<<0, 0>>, <<0, 1>>}

TimerPuzzles == {<<"beginner", 0>>, <<"beginner", 1>>}

ChooseTimerPuzzle ==
  /\ \E pz \in TimerPuzzles : selectPuzzle(pz[1], pz[2])
  /\ UNCHANGED auxVars

PressTimer ==
  /\ presses < TimerPresses
  /\ \E cell \in TimerCells : handleTilePress(cell[1], cell[2], NoPowerUp)
  /\ presses' = IF gameState = "playing" THEN presses + 1 ELSE presses
  /\ UNCHANGED <<ticks, countVars>>

TickTimer == timerTick /\ UNCHANGED auxVars

NextTimer ==
  \/ LoadFresh
  \/ ChooseMode
  \/ ChooseTimerPuzzle
  \/ Start
  \/ PressTimer
  \/ WinTimeout
  \/ TickTimer
  \/ DismissAlert

SpecTimer == Init /\ [][NextTimer]_vars

(***************************************************************************)
(* SpecFail: rounds whose grid generation may throw, in either mode and on *)
(* every grid size.                                                        *)
(***************************************************************************)
Failures == {"colors", "layout"}

StartFailing ==
  /\ \E shuffled \in ShuffleOutcomes(gridSize), failure \in Failures \cup {"none"} :
       startGame(shuffled, IF shuffled = SolvedNumbers(gridSize) THEN ShuffleAttempts ELSE 1, failure)
  /\ UNCHANGED auxVars

NextFail ==
  \/ LoadFresh
  \/ ChooseMode
  \/ ChooseAnySize
  \/ ChoosePuzzle
  \/ StartFailing
  \/ PressTimer
  \/ WinTimeout
  \/ DismissAlert

SpecFail == Init /\ [][NextFail]_vars

(***************************************************************************)
(* SpecRounds: successive 4x4 rounds in either mode, the earlier ones long *)
(* enough to leave power-ups behind; the player may blank the name between *)
(* rounds.  Presses stay in the first three cells of row 0.                *)
(***************************************************************************)
RoundsPresses == 18   \* tile presses in a behaviour

TypedNames == {"", " ", "Ann"}

EnterTypedName == \E name \in TypedNames : setPlayerName(name) /\ UNCHANGED auxVars

RoundsAwards == {"SWAP_ANY", NoPowerUp}

PressRounds ==
  /\ gameState = "playing"
  /\ pendingWins = <<>>
  /\ presses < RoundsPresses
  /\ \E cell \in PowerCells, award \in RoundsAwards :
       handleTilePress(cell[1], cell[2], award)
  /\ presses' = presses + 1
  /\ UNCHANGED <<ticks, countVars>>

NextRounds ==
  \/ LoadFresh
  \/ EnterTypedName
  \/ ChooseMode
  \/ Start
  \/ PressRounds
  \/ UsePower
  \/ WinTimeout
  \/ DismissAlert

SpecRounds == Init /\ [][NextRounds]_vars

(***************************************************************************)
(* SpecExact: one round of a beginner puzzle, every cell of the board open *)
(* to presses.  A press is followed only while the tiles' total distance   *)
(* from their home cells is at most twice the swaps left in the budget: a  *)
(* swap of neighbouring cells moves two tiles by one cell each, so a board *)
(* beyond that distance cannot be solved within maxMoves.                  *)
(***************************************************************************)
CellOf(k, size) == <<(k - 1) \div size, (k - 1) % size>>

CellDistance(a, b) == Abs(a[1] - b[1]) + Abs(a[2] - b[2])

RECURSIVE DisplacementFrom(_, _, _)
DisplacementFrom(g, size, k) ==
  IF k > Len(g) THEN 0
  ELSE CellDistance(CellOf(k, size), CellOf(g[k], size)) + DisplacementFrom(g, size, k + 1)

Displacement(g, size) == DisplacementFrom(g, size, 1)

ExactPuzzles == { <<"beginner", idx>> : idx \in 0..(Len(PUZZLE_PACKS["beginner"]) - 1) }

ChoosePuzzleMode == setGameMode("puzzle") /\ UNCHANGED auxVars

ChooseExactPuzzle ==
  /\ \E pz \in ExactPuzzles : selectPuzzle(pz[1], pz[2])
  /\ UNCHANGED auxVars

StartExact ==
  /\ gameMode = "puzzle"
  /\ startGame(SolvedNumbers(gridSize), ShuffleAttempts, "none")
  /\ UNCHANGED auxVars

PressExact ==
  /\ gameState = "playing"
  /\ pendingWins = <<>>
  /\ \E row \in 0..(gridSize - 1), col \in 0..(gridSize - 1) :
       handleTilePress(row, col, NoPowerUp)
  /\ Displacement(grid', gridSize) <= 2 * (maxMoves - moves')
  /\ UNCHANGED auxVars

NextExact ==
  \/ LoadFresh
  \/ ChoosePuzzleMode
  \/ ChooseExactPuzzle
  \/ StartExact
  \/ PressExact
  \/ WinTimeout

SpecExact == Init /\ [][NextExact]_vars

(***************************************************************************)
(* SpecRace: rounds played against the clock with the 300 ms win callback  *)
(* racing the 1000 ms timer: while a win callback is pending the timer     *)
(* fires at most once.  `ticks` counts the ticks since the last press.     *)
(***************************************************************************)
PressRace ==
  /\ presses < TimerPresses
  /\ \E cell \in TimerCells : handleTilePress(cell[1], cell[2], NoPowerUp)
  /\ presses' = IF gameState = "playing" THEN presses + 1 ELSE presses
  /\ ticks' = 0
  /\ UNCHANGED countVars

TickRace ==
  /\ pendingWins # <<>> => ticks = 0
  /\ timerTick
  /\ ticks' = 1
  /\ UNCHANGED <<presses, countVars>>

NextRace ==
  \/ LoadFresh
  \/ ChooseMode
  \/ ChooseTimerPuzzle
  \/ Start
  \/ PressRace
  \/ WinTimeout
  \/ TickRace
  \/ DismissAlert

SpecRace == Init /\ [][NextRace]_vars

(***************************************************************************)
(* SpecSlot: one classic round in which Teleport and Free Move tokens are  *)
(* earned and applied, with the history counters kept: overriddenSwaps     *)
(* counts the swaps made while an override was armed, tokensApplied the    *)
(* Teleport and Free Move tokens applied.                                  *)
(***************************************************************************)
Overrides == {"SWAP_ANY", "DOUBLE_MOVE"}

PressSlot ==
  /\ gameState = "playing"
  /\ pendingWins = <<>>
  /\ moves < PowerMoves
  /\ \E cell \in PowerCells, award \in Overrides \cup {NoPowerUp} :
       handleTilePress(cell[1], cell[2], award)
  /\ overriddenSwaps' =
       IF /\ selectedPowerUp # NoPowerUp
          /\ selectedTile # Null
          /\ selectedTile' = Null
          /\ (grid' # grid \/ moves' # moves)
         THEN overriddenSwaps + 1 ELSE overriddenSwaps
  /\ UNCHANGED <<presses, ticks, tokensApplied>>

UseSlot ==
  /\ \E type \in Overrides : usePowerUp(type)
  /\ tokensApplied' = tokensApplied + 1
  /\ UNCHANGED <<presses, ticks, overriddenSwaps>>

NextSlot ==
  \/ LoadFresh
  \/ Start
  \/ PressSlot
  \/ UseSlot
  \/ WinTimeout

SpecSlot == Init /\ [][NextSlot]_vars

(***************************************************************************)
(* SpecLive: one round in either mode under a timer that keeps ticking     *)
(* (weak fairness of the tick).  In classic mode the award at move 8 may   *)
(* be a Freeze Time token; `ticks` counts the ticks of the round and       *)
(* tokensApplied the Freeze Time tokens applied.                           *)
(***************************************************************************)
LiveMoves == 8        \* counted swaps in the round

PressLive ==
  /\ gameState = "playing"
  /\ pendingWins = <<>>
  /\ moves < LiveMoves
  /\ \E cell \in TimerCells, award \in {"FREEZE_TIME", NoPowerUp} :
       handleTilePress(cell[1], cell[2], award)
  /\ UNCHANGED auxVars

UseLive ==
  /\ usePowerUp("FREEZE_TIME")
  /\ tokensApplied' = tokensApplied + 1
  /\ UNCHANGED <<presses, ticks, overriddenSwaps>>

TickLive ==
  /\ timerTick
  /\ ticks' = ticks + 1
  /\ UNCHANGED <<presses, countVars>>

NextLive ==
  \/ LoadFresh
  \/ ChooseMode
  \/ ChooseTimerPuzzle
  \/ Start
  \/ PressLive
  \/ UseLive
  \/ TickLive
  \/ WinTimeout

SpecLive == Init /\ [][NextLive]_vars /\ WF_vars(TickLive)

(***************************************************************************)
(* Properties.                                                             *)
(***************************************************************************)
Manhattan(a, b) == Abs(a[1] - b[1]) + Abs(a[2] - b[2])

CountMoves(list, m) == Cardinality({ i \in DOMAIN list : list[i].moves = m })

\* a step that runs the scheduled handleWin callback
WinFires == pendingWins # <<>> /\ pendingWins' = Tail(pendingWins) /\ gameState' = "won"

\* C1: when a round is won, the record written to the leaderboard has moves equal to the
\* number of counted swaps of the round, the winning swap included (for First Steps: 1).
C1_RecordCountsWinningSwap ==
  [][WinFires =>
       highScores' = recordScore(highScores,
                                 scoreKey(gameMode, gridSize, currentPuzzlePack, currentPuzzleIndex),
                                 [moves |-> moves])]_vars

\* C2: from the swap that completes the board onward, no tile press changes the board, the
\* selection or the move count.
C2_NoPressAfterCompletion ==
  [][pendingWins # <<>> => UNCHANGED <<grid, selectedTile, moves>>]_vars

\* C3: with a tile selected and no override armed, pressing a tile that is not at Manhattan
\* distance 1 only moves the selection to it; board, move count and all else are unchanged.
C3_NonAdjacentPressOnlyReselects ==
  [][\A row \in 0..(gridSize - 1), col \in 0..(gridSize - 1) :
       (/\ gameState = "playing"
        /\ selectedTile # Null
        /\ selectedPowerUp = NoPowerUp
        /\ selectedTile # <<row, col>>
        /\ Manhattan(selectedTile, <<row, col>>) # 1
        /\ handleTilePress(row, col, NoPowerUp))
       => (/\ selectedTile' = <<row, col>>
           /\ UNCHANGED <<gameState, menuVars, grid, moves, timeLeft, maxMoves, powerUps,
                          selectedPowerUp, storeVars, pendingWins>>)]_vars

C3_Witness ==
  /\ gameState = "playing"
  /\ presses = 2
  /\ moves = 0
  /\ selectedTile = <<1, 0>>

\* C4: Freeze-Time never takes timeRemaining above the 300-second maximum.
C4_TimeCappedAt300 == timeLeft <= 300

\* C5: every leaderboard bucket holds at most 5 records in non-decreasing order of moves, and
\* recording a 6th result with fewer moves than the worst record evicts the worst record and
\* keeps the new one.
C5_BucketsSorted ==
  \A key \in DOMAIN highScores :
    /\ Len(highScores[key]) <= 5
    /\ \A i \in 1..(Len(highScores[key]) - 1) :
         highScores[key][i].moves <= highScores[key][i + 1].moves

C5_SixthEvictsWorst ==
  [][WinFires =>
       LET c == Head(pendingWins)
           key == scoreKey(c.gameMode, c.gridSize, c.pack, c.index)
       IN  (/\ key \in DOMAIN highScores
            /\ Len(highScores[key]) = 5
            /\ c.moves < highScores[key][5].moves)
           => (/\ key \in DOMAIN highScores'
               /\ Len(highScores'[key]) = 5
               /\ \A m \in 0..(highScores[key][5].moves) :
                    CountMoves(highScores'[key], m) =
                      CountMoves(SubSeq(highScores[key], 1, 4), m) + (IF m = c.moves THEN 1 ELSE 0))]_vars

C5_TopFiveSorted == []C5_BucketsSorted /\ C5_SixthEvictsWorst

C5_Witness ==
  /\ gameState = "won"
  /\ "4x4" \in DOMAIN highScores
  /\ highScores["4x4"] = ScoreList(<<0, 0, 1, 1, 2>>)

\* C6: isPackCompleted(pack) is true exactly when every puzzle index of the pack has a
\* non-empty bucket 'puzzle-<pack>-<index>', isPuzzleCompleted(pack, index) exactly when that
\* bucket is non-empty, and the win that records the last missing puzzle completes the pack.
HasRecord(hs, pack, idx) ==
  LET key == "puzzle-" \o pack \o "-" \o ToString(idx)
  IN  key \in DOMAIN hs /\ hs[key] # <<>>

C6_CompletionMatchesStore ==
  \A pack \in PackNames :
    /\ isPackCompleted(highScores, pack)
         <=> (\A idx \in 0..(Len(PUZZLE_PACKS[pack]) - 1) : HasRecord(highScores, pack, idx))
    /\ \A idx \in 0..(Len(PUZZLE_PACKS[pack]) - 1) :
         isPuzzleCompleted(highScores, pack, idx) <=> HasRecord(highScores, pack, idx)

C6_LastWinCompletes ==
  [][WinFires =>
       LET c == Head(pendingWins)
       IN  (/\ c.gameMode = "puzzle"
            /\ \A idx \in 0..(Len(PUZZLE_PACKS[c.pack]) - 1) :
                 idx # c.index => HasRecord(highScores, c.pack, idx))
           => isPackCompleted(highScores', c.pack)]_vars

C6_PackCompletion == []C6_CompletionMatchesStore /\ C6_LastWinCompletes

C6_Witness ==
  /\ gameState = "won"
  /\ currentPuzzlePack = "intermediate"
  /\ isPackCompleted(highScores, "intermediate")
  /\ highScores["puzzle-intermediate-0"] = ScoreList(<<1>>)

\* C7: the unlock flags are a function of the store in every state: intermediate is unlocked
\* iff the beginner pack is completed, advanced iff the intermediate pack is completed.
C7_FlagsFollowStore ==
  /\ unlocks.intermediate <=> isPackCompleted(highScores, "beginner")
  /\ unlocks.advanced <=> isPackCompleted(highScores, "intermediate")

\* C8: in a fixed-puzzle round moves never exceeds maxMoves, an adjacent swap requested with
\* the budget used up leaves board and moves alone and ends the round as gameOver, and no
\* record of a fixed puzzle has more moves than the puzzle's maxMoves.
C8_WithinBudget ==
  /\ (gameMode = "puzzle" /\ gameState \in {"playing", "won", "gameOver"})
       => (/\ maxMoves = Puzzle(currentPuzzlePack, currentPuzzleIndex).maxMoves
           /\ moves <= maxMoves)
  /\ \A pack \in PackNames : \A idx \in 0..(Len(PUZZLE_PACKS[pack]) - 1) :
       LET key == "puzzle-" \o pack \o "-" \o ToString(idx)
       IN  key \in DOMAIN highScores =>
             \A i \in DOMAIN highScores[key] :
               highScores[key][i].moves <= Puzzle(pack, idx).maxMoves

C8_OverBudgetSwapLoses ==
  [][\A row \in 0..(gridSize - 1), col \in 0..(gridSize - 1) :
       (/\ gameState = "playing"
        /\ gameMode = "puzzle"
        /\ selectedTile # Null
        /\ Manhattan(selectedTile, <<row, col>>) = 1
        /\ moves >= maxMoves
        /\ handleTilePress(row, col, NoPowerUp))
       => (gameState' = "gameOver" /\ grid' = grid /\ moves' = moves)]_vars

C8_MoveBudget == []C8_WithinBudget /\ C8_OverBudgetSwapLoses

C8_Witness ==
  /\ gameState = "gameOver"
  /\ gameMode = "puzzle"
  /\ timeLeft > 0
  /\ moves = maxMoves

\* C9: in every state of a classic round the board holds each number 1..size*size exactly once.
C9_ClassicBoardIsPermutation ==
  (gameMode = "classic" /\ gameState = "playing")
    => (/\ Len(grid) = gridSize * gridSize
        /\ \A n \in 1..(gridSize * gridSize) :
             Cardinality({ k \in DOMAIN grid : grid[k] = n }) = 1)

C9_Witness ==
  /\ gameMode = "classic"
  /\ gameState = "playing"
  /\ moves = PowerUpEvery + 1
  /\ powerUps = <<>>
  /\ selectedPowerUp = NoPowerUp
  /\ grid # SolvedNumbers(gridSize)

\* C10: at the start of every fixed-puzzle round the board is the puzzle's startGrid on a grid
\* of the puzzle's gridSize, with maxMoves and timeLeft taken from the puzzle, whatever grid
\* size was chosen for classic play.
C10_PuzzleRoundStart ==
  (gameState = "playing" /\ gameMode = "puzzle" /\ presses = 0 /\ ticks = 0)
    => LET pz == Puzzle(currentPuzzlePack, currentPuzzleIndex)
       IN  /\ grid = pz.startGrid
           /\ Len(grid) = pz.gridSize * pz.gridSize
           /\ \A k \in DOMAIN grid : grid[k] \in 1..(pz.gridSize * pz.gridSize)
           /\ maxMoves = pz.maxMoves
           /\ timeLeft = pz.timeLimit

\* a tile press that performs a swap: the selection is cleared and the board or the move
\* count changes
TileSwap ==
  /\ gameState = "playing"
  /\ selectedTile # Null
  /\ selectedTile' = Null
  /\ (grid' # grid \/ moves' = moves + 1)

RemoveAt(list, i) == SubSeq(list, 1, i - 1) \o SubSeq(list, i + 1, Len(list))

\* C11: once Teleport-Swap is applied the override stays armed until the next swap, that swap
\* exchanges the selected and the pressed tile whatever their distance and clears the
\* override, and every swap made with no Teleport armed is between adjacent tiles.
C11_TeleportOneShot ==
  [][/\ (gameState = "playing" /\ selectedPowerUp = "SWAP_ANY" /\ selectedPowerUp' # "SWAP_ANY")
          => TileSwap
     /\ (selectedPowerUp = "SWAP_ANY" /\ TileSwap) => selectedPowerUp' = NoPowerUp
     /\ \A row \in 0..(gridSize - 1), col \in 0..(gridSize - 1) :
          (/\ gameState = "playing"
           /\ selectedPowerUp = "SWAP_ANY"
           /\ selectedTile # Null
           /\ handleTilePress(row, col, NoPowerUp))
          => grid' = SwapTiles(grid, GridIndex(row, col, gridSize),
                               GridIndex(selectedTile[1], selectedTile[2], gridSize))
     /\ (selectedPowerUp # "SWAP_ANY" /\ TileSwap)
          => \E row \in 0..(gridSize - 1), col \in 0..(gridSize - 1) :
               /\ Manhattan(selectedTile, <<row, col>>) = 1
               /\ grid' = SwapTiles(grid, GridIndex(row, col, gridSize),
                                    GridIndex(selectedTile[1], selectedTile[2], gridSize))]_vars

\* C12: once Free-Move is applied the override stays armed until the next swap, that swap
\* leaves the move count unchanged and clears the override, and every swap made with no
\* Free-Move armed adds exactly 1 to the move count.
C12_FreeMoveOneShot ==
  [][/\ (gameState = "playing" /\ selectedPowerUp = "DOUBLE_MOVE" /\ selectedPowerUp' # "DOUBLE_MOVE")
          => (TileSwap /\ moves' = moves /\ selectedPowerUp' = NoPowerUp)
     /\ (selectedPowerUp = "DOUBLE_MOVE" /\ TileSwap)
          => (moves' = moves /\ selectedPowerUp' = NoPowerUp)
     /\ (selectedPowerUp # "DOUBLE_MOVE" /\ TileSwap) => moves' = moves + 1]_vars

\* C13: applying a power-up removes exactly one token of that kind from the held list and
\* leaves every other held token, other tokens of the same kind included, in place.
C13_UseRemovesOneToken ==
  [][\A type \in POWER_UP_TYPES :
       usePowerUp(type)
         => \E i \in DOMAIN powerUps :
              powerUps[i] = type /\ powerUps' = RemoveAt(powerUps, i)]_vars

Misplaced(g) == { k \in DOMAIN g : g[k] # k }

FirstMisplaced(g) == CHOOSE k \in Misplaced(g) : \A j \in Misplaced(g) : k <= j

\* the board g with the tile numbered FirstMisplaced(g) moved into its cell, the tile that
\* was there taking its place
Repaired(g) ==
  LET k == FirstMisplaced(g)
      from == CHOOSE j \in DOMAIN g : g[j] = k
  IN  [g EXCEPT ![k] = k, ![from] = g[k]]

\* C14: Auto-Complete repairs the first misplaced cell in row-major order and, if a
\* misplaced cell remains after that repair, the next one too, wherever the expected tiles
\* are; it relocates at most 2 tiles, leaves correct cells correct and moves unchanged.
C14_AutoSolveRepairsFirstTwo ==
  [][usePowerUp("AUTO_SOLVE") =>
       /\ moves' = moves
       /\ \A k \in DOMAIN grid : grid[k] = k => grid'[k] = k
       /\ Cardinality({ k \in DOMAIN grid : grid'[k] # grid[k] }) <= 4
       /\ Misplaced(grid) # {} =>
            /\ grid'[FirstMisplaced(grid)] = FirstMisplaced(grid)
            /\ Misplaced(Repaired(grid)) # {} =>
                 grid'[FirstMisplaced(Repaired(grid))] = FirstMisplaced(Repaired(grid))]_vars

\* C15: while a round is playing, timeLeft only ever drops by exactly 1 per tick, a tick that
\* takes it to 0 ends the round as gameOver, and timeLeft is never negative.
C15_TimeNeverNegative == timeLeft >= 0 /\ (gameState = "playing" => timeLeft > 0)

C15_TickByOne ==
  [][gameState = "playing" =>
       /\ timeLeft' < timeLeft => timeLeft' = timeLeft - 1
       /\ (timeLeft' = 0 /\ timeLeft # 0) => gameState' = "gameOver"]_vars

C15_Countdown == []C15_TimeNeverNegative /\ C15_TickByOne

C15_Witness == gameState = "gameOver" /\ timeLeft = 0 /\ moves > 0

\* C16: outside the playing state no tick takes effect: timeLeft changes only when a new
\* round is started (to that round's time limit), no time-expired transition fires, and a
\* round that was left with time on the clock starts the next round on the full limit.
C16_NoTickOutsidePlaying ==
  [][gameState # "playing" =>
       /\ timeLeft' # timeLeft =>
            (/\ gameState = "menu"
             /\ gameState' = "playing"
             /\ timeLeft' = IF gameMode = "puzzle"
                              THEN Puzzle(currentPuzzlePack, currentPuzzleIndex).timeLimit
                              ELSE 30 * (gridSize - 2))
       /\ gameState' = "gameOver" => gameState = "gameOver"]_vars

C16_Witness ==
  /\ gameState = "menu"
  /\ timeLeft \in 1..44
  /\ highScores # EmptyScores

\* rowComplete for number tiles: every cell of the row holds its own number
RowComplete(g, size, row) ==
  \A col \in 0..(size - 1) : g[GridIndex(row, col, size)] = GridIndex(row, col, size)

\* C17: a tile in a completed row is locked: pressing it is a no-op and no swap moves it.
C17_LockedTilesNeverMove ==
  [][gameState = "playing" =>
       \A row \in 0..(gridSize - 1) :
         RowComplete(grid, gridSize, row) =>
           \A col \in 0..(gridSize - 1) :
             /\ handleTilePress(row, col, NoPowerUp) => UNCHANGED <<grid, selectedTile, moves>>
             /\ grid'[GridIndex(row, col, gridSize)] = grid[GridIndex(row, col, gridSize)]]_vars

\* C19: when grid generation throws, the round still starts, on the solved board of the
\* chosen grid size (row r, column c holds r*size + c + 1), with the target grid the same
\* board.
C19_FallbackBoardIsSolved ==
  [][\A shuffled \in ShuffleOutcomes(gridSize), failure \in Failures :
       (playerName = "Ann" /\ startGame(shuffled, ShuffleAttempts, failure))
         => /\ gameState' = "playing"
            /\ Len(grid') = gridSize * gridSize
            /\ \A r \in 0..(gridSize - 1), c \in 0..(gridSize - 1) :
                 grid'[r * gridSize + c + 1] = r * gridSize + c + 1
            /\ targetGrid' = grid']_vars

C19_Witness ==
  /\ gameState = "playing"
  /\ gameMode = "puzzle"
  /\ gridSize = 5
  /\ presses = 0
  /\ grid = [k \in 1..25 |-> k]
  /\ targetGrid = grid

\* C20: every round starts fresh: a startGame that enters playing (the name is not blank)
\* leaves moves 0, no tile selected, no power-up held, no override armed and timeLeft at the
\* time limit of the chosen size or puzzle; a startGame with a blank name changes none of
\* these and stays in the menu.
C20_RoundStartsFresh ==
  [][/\ (gameState = "menu" /\ gameState' = "playing")
          => /\ playerName \notin {"", " "}
             /\ moves' = 0
             /\ selectedTile' = Null
             /\ powerUps' = <<>>
             /\ selectedPowerUp' = NoPowerUp
             /\ timeLeft' = IF gameMode = "puzzle"
                              THEN Puzzle(currentPuzzlePack, currentPuzzleIndex).timeLimit
                              ELSE 30 * (gridSize - 2)
     /\ \A shuffled \in ShuffleOutcomes(gridSize) :
          (playerName \in {"", " "} /\ startGame(shuffled, ShuffleAttempts, "none"))
            => UNCHANGED <<gameState, moves, selectedTile, powerUps, selectedPowerUp, timeLeft>>]_vars

C20_Witness ==
  /\ gameState = "playing"
  /\ moves = 0
  /\ selectedTile = Null
  /\ powerUps = <<>>
  /\ highScores # EmptyScores

\* a board from which the solved board is reached by at most budget swaps of neighbouring
\* cells, none of which takes the tiles farther from home
RECURSIVE SolvableWithin(_, _, _)
SolvableWithin(g, size, budget) ==
  \/ checkWin(g, size)
  \/ /\ budget > 0
     /\ \E a \in 1..Len(g), b \in 1..Len(g) :
          /\ a < b
          /\ isAdjacent(CellOf(a, size)[1], CellOf(a, size)[2], CellOf(b, size)[1], CellOf(b, size)[2])
          /\ Displacement(SwapTiles(g, a, b), size) <= Displacement(g, size)
          /\ Displacement(SwapTiles(g, a, b), size) <= 2 * (budget - 1)
          /\ SolvableWithin(SwapTiles(g, a, b), size, budget - 1)

\* moving a tile to a neighbouring cell changes its distance from any home cell by at most 1
NeighbourStepLemma ==
  \A size \in GridSizes : \A a \in 1..(size * size), b \in 1..(size * size), home \in 1..(size * size) :
    isAdjacent(CellOf(a, size)[1], CellOf(a, size)[2], CellOf(b, size)[1], CellOf(b, size)[2])
      => Abs(CellDistance(CellOf(a, size), CellOf(home, size))
             - CellDistance(CellOf(b, size), CellOf(home, size))) <= 1

EveryPuzzleSolvable ==
  \A pack \in PackNames : \A idx \in 0..(Len(PUZZLE_PACKS[pack]) - 1) :
    SolvableWithin(Puzzle(pack, idx).startGrid, Puzzle(pack, idx).gridSize, Puzzle(pack, idx).maxMoves)

\* C18: every puzzle of every pack can be solved by swaps of neighbouring cells within its
\* maxMoves, and a beginner puzzle (maxMoves 1, 3, 5, 7, 9) is never solved in fewer than
\* maxMoves swaps: whenever the board of a beginner round is solved, moves = maxMoves.
C18_ExactMovePuzzles ==
  /\ NeighbourStepLemma
  /\ <<Puzzle("beginner", 0).maxMoves, Puzzle("beginner", 1).maxMoves, Puzzle("beginner", 2).maxMoves,
       Puzzle("beginner", 3).maxMoves, Puzzle("beginner", 4).maxMoves>> = <<1, 3, 5, 7, 9>>
  /\ EveryPuzzleSolvable
  /\ (gameMode = "puzzle" /\ gameState \in {"playing", "won"} /\ checkWin(grid, gridSize))
       => /\ moves = Puzzle(currentPuzzlePack, currentPuzzleIndex).maxMoves
          /\ moves = maxMoves

C18_Witness ==
  /\ gameMode = "puzzle"
  /\ currentPuzzlePack = "beginner"
  /\ currentPuzzleIndex = 4
  /\ gameState = "won"
  /\ checkWin(grid, gridSize)
  /\ moves = 9

\* C21: with tile s selected, pressing s again clears the selection and changes nothing else:
\* board, move count, held power-ups and the armed override stay as they are, in every mode
\* and with or without an override armed.
C21_PressSelectedOnlyDeselects ==
  [][\A row \in 0..(gridSize - 1), col \in 0..(gridSize - 1), award \in POWER_UP_TYPES \cup {NoPowerUp} :
       (/\ gameState = "playing"
        /\ selectedTile = <<row, col>>
        /\ handleTilePress(row, col, award))
       => /\ selectedTile' = Null
          /\ UNCHANGED <<grid, moves, powerUps, selectedPowerUp, timeLeft, gameState,
                         highScores, pendingWins>>]_vars

\* C22: an accepted swap of two adjacent tiles with no override armed exchanges exactly the
\* two tiles, leaves every other cell unchanged, adds exactly 1 to the move count and clears
\* the selection.
C22_AdjacentSwapFrame ==
  [][\A row \in 0..(gridSize - 1), col \in 0..(gridSize - 1), award \in POWER_UP_TYPES \cup {NoPowerUp} :
       (/\ gameState = "playing"
        /\ selectedPowerUp = NoPowerUp
        /\ selectedTile # Null
        /\ Manhattan(selectedTile, <<row, col>>) = 1
        /\ ~(gameMode = "puzzle" /\ moves >= maxMoves)
        /\ handleTilePress(row, col, award))
       => LET a == GridIndex(selectedTile[1], selectedTile[2], gridSize)
              b == GridIndex(row, col, gridSize)
          IN  /\ DOMAIN grid' = DOMAIN grid
              /\ grid'[a] = grid[b]
              /\ grid'[b] = grid[a]
              /\ \A k \in DOMAIN grid \ {a, b} : grid'[k] = grid[k]
              /\ moves' = moves + 1
              /\ selectedTile' = Null]_vars

C22_Witness ==
  /\ gameState = "playing"
  /\ presses = 4
  /\ moves = 2
  /\ selectedTile = Null
  /\ pendingWins = <<>>

\* every row of the size x size board g is complete; a board with cells missing is not
EveryRowComplete(g, size) ==
  /\ Len(g) >= size * size
  /\ \A row \in 0..(size - 1) : RowComplete(g, size, row)

\* boards handed to the win check: the solved 4x4 board, that board with one cell holding any
\* number (0 for a missing tile) or with two cells exchanged, and every such board cut off
\* after any number of cells
CheckBoards ==
  LET solved == SolvedNumbers(4)
      oneOff == { [solved EXCEPT ![k] = v] : k \in 1..16, v \in 0..17 }
      swapped == { SwapTiles(solved, a, b) : a \in 1..16, b \in 1..16 }
  IN  { SubSeq(g, 1, n) : g \in oneOff \cup swapped, n \in 0..16 }

CheckWinOnBoards ==
  \A g \in CheckBoards : checkWin(g, 4) <=> EveryRowComplete(g, 4)

\* C23: the win check is true for a board exactly when every row is complete (row r, column c
\* holds r*size + c + 1); it is false for a missing or malformed board; a win is scheduled
\* only on a board the check found complete.
C23_CheckWinIffRowsComplete ==
  /\ []CheckWinOnBoards
  /\ [](/\ checkWin(grid, gridSize) <=> EveryRowComplete(grid, gridSize)
        /\ ~checkWin(<<>>, gridSize))
  /\ [][Len(pendingWins') > Len(pendingWins)
          => EveryRowComplete(grid', gridSize)]_vars

C23_Witness ==
  /\ gameState = "won"
  /\ gridSize = 5
  /\ EveryRowComplete(grid, gridSize)
  /\ moves = 1

C25_CompletionAlwaysWins ==
  [][(gameState = "playing" /\ ~checkWin(grid, gridSize) /\ checkWin(grid', gridSize))
       => (gameState' = "won" \/ Len(pendingWins') > Len(pendingWins))]_vars

\* C26: a fixed-puzzle round is only ever started on a puzzle whose pack is unlocked when the
\* round starts: never an intermediate puzzle while the beginner pack is incomplete, never an
\* advanced puzzle while the intermediate pack is incomplete.
C26_StartOnlyUnlockedPuzzle ==
  [][(gameState = "menu" /\ gameState' = "playing" /\ gameMode = "puzzle")
       => /\ currentPuzzlePack = "intermediate" => isPackCompleted(highScores, "beginner")
          /\ currentPuzzlePack = "advanced" => isPackCompleted(highScores, "intermediate")]_vars

\* C27: the pending override is a single slot: at most one of Teleport and Free Move is armed,
\* arming one replaces the other, and an armed override is used up by the one swap made with
\* it, so the swaps made with an override never outnumber the Teleport and Free Move tokens
\* applied.
C27_SlotInvariant ==
  /\ selectedPowerUp \in Overrides \cup {NoPowerUp}
  /\ overriddenSwaps <= tokensApplied
  /\ selectedPowerUp # NoPowerUp => overriddenSwaps < tokensApplied

C27_SlotSteps ==
  [][/\ \A type \in Overrides : usePowerUp(type) => selectedPowerUp' = type
     /\ (selectedPowerUp # NoPowerUp /\ selectedTile # Null /\ selectedTile' = Null
         /\ (grid' # grid \/ moves' # moves))
          => selectedPowerUp' = NoPowerUp
     /\ (selectedPowerUp = NoPowerUp /\ selectedPowerUp' # NoPowerUp)
          => \E type \in Overrides : usePowerUp(type)]_vars

C27_SingleOverrideSlot == []C27_SlotInvariant /\ C27_SlotSteps

C27_Witness ==
  /\ gameState = "playing"
  /\ tokensApplied = 2
  /\ overriddenSwaps = 2
  /\ selectedPowerUp = NoPowerUp

C29_TicksWithinLimit ==
  tokensApplied = 0 =>
    /\ ticks <= getTimeLimit(gameMode, gridSize, currentPuzzlePack, currentPuzzleIndex)
    /\ gameState = "playing" =>
         ticks + timeLeft = getTimeLimit(gameMode, gridSize, currentPuzzlePack, currentPuzzleIndex)

AdjacentExchange ==
  /\ selectedTile # Null
  /\ \E row \in 0..(gridSize - 1), col \in 0..(gridSize - 1) :
       /\ Manhattan(selectedTile, <<row, col>>) = 1
       /\ grid' = SwapTiles(grid, GridIndex(row, col, gridSize),
                            GridIndex(selectedTile[1], selectedTile[2], gridSize))

\* C30: a power-up is awarded only in classic mode, only by a counted swap of adjacent tiles
\* that brings the move count to a multiple of 8, and one at a time; in a puzzle round no
\* power-up is held and no override is armed, so every swap there is adjacent and counted.
C30_AwardSteps ==
  [][/\ Len(powerUps') > Len(powerUps)
          => /\ gameMode = "classic"
             /\ gameState = "playing"
             /\ selectedPowerUp = NoPowerUp
             /\ AdjacentExchange
             /\ moves' = moves + 1
             /\ moves' % 8 = 0
             /\ Len(powerUps') = Len(powerUps) + 1
             /\ SubSeq(powerUps', 1, Len(powerUps)) = powerUps
     /\ (gameMode = "puzzle" /\ gameState = "playing" /\ grid' # grid)
          => (AdjacentExchange /\ moves' = moves + 1)]_vars

C30_PuzzleRoundHoldsNone ==
  (gameMode = "puzzle" /\ gameState = "playing")
    => (powerUps = <<>> /\ selectedPowerUp = NoPowerUp)

C30_AwardsOnlyInClassic == []C30_PuzzleRoundHoldsNone /\ C30_AwardSteps

C30_Witness ==
  /\ gameMode = "puzzle"
  /\ gameState = "playing"
  /\ "4x4" \in DOMAIN highScores
  /\ highScores["4x4"][1].moves >= PowerUpEvery
  /\ powerUps = <<>>

====
